---- MODULE Spec2Model ----
(***************************************************************************)
(* A model of property_monitor.py: one process of the property monitor     *)
(* (PropertyMonitor(...) followed by run()) as a state machine, and two    *)
(* such processes in a row on the same snapshot file.                      *)
(*                                                                         *)
(* Strings are sequences of one-character strings, so that lower(),        *)
(* strip(), the substring test of the parsers and the JSON string escapes  *)
(* are computed and not assumed.  A Python dict is the sequence of its     *)
(* <<key, value>> pairs in insertion order, with unique keys.              *)
(***************************************************************************)
EXTENDS Naturals, Sequences, FiniteSets

VARIABLES
    file,                  \* previous_listings.json on disk
    now,                   \* what datetime.now().strftime("%Y-%m-%d") gives
    email_to,              \* self.email_to
    pc,                    \* position of the process
    previous_listings,     \* self.previous_listings
    site_idx,              \* position of "for site in self.sites"
    all_current_listings,  \* run(): all_current_listings
    new_listings,          \* run(): new_listings
    responses,             \* what each site visited so far answered
    parser_calls,          \* names of the sites whose parser was called
    send_calls,            \* how often run() called send_notification
    smtp_connections,      \* how often send_notification called smtplib.SMTP
    outbox,                \* messages the SMTP server accepted
    returned,              \* <<v>> once run() has returned v, <<>> before
    finished               \* what is remembered of the processes that
                           \* ended before this one

vars == <<file, now, email_to, pc, previous_listings, site_idx,
          all_current_listings, new_listings, responses, parser_calls,
          send_calls, smtp_connections, outbox, returned, finished>>

-----------------------------------------------------------------------------
(* Bounds of the model *)

\* cards over all the pages fetched in one behaviour
MaxCards == 2

-----------------------------------------------------------------------------
(* Strings *)

UpperCase == <<"A","B","C","D","E","F","G","H","I","J","K","L","M",
               "N","O","P","Q","R","S","T","U","V","W","X","Y","Z">>
LowerCase == <<"a","b","c","d","e","f","g","h","i","j","k","l","m",
               "n","o","p","q","r","s","t","u","v","w","x","y","z">>

Range26 == {UpperCase[k] : k \in 1..26}

\* the lower-case letter of each upper-case letter
LowerOf == [c \in Range26 |-> LowerCase[CHOOSE k \in 1..26 : UpperCase[k] = c]]

LowerChar(c) == IF c \in Range26 THEN LowerOf[c] ELSE c

\* str.lower()
Lower(s) == [k \in 1..Len(s) |-> LowerChar(s[k])]

Whitespace == {" ", "\n", "\t"}

RECURSIVE LStrip(_)
LStrip(s) ==
    IF s # <<>> /\ Head(s) \in Whitespace THEN LStrip(Tail(s)) ELSE s

RECURSIVE RStrip(_)
RStrip(s) ==
    IF s # <<>> /\ s[Len(s)] \in Whitespace
    THEN RStrip(SubSeq(s, 1, Len(s) - 1))
    ELSE s

\* str.strip()
Strip(s) == RStrip(LStrip(s))

\* needle in hay
Contains(needle, hay) ==
    \E k \in 0..Len(hay) :
        /\ k + Len(needle) <= Len(hay)
        /\ SubSeq(hay, k + 1, k + Len(needle)) = needle

RECURSIVE Concat(_)
Concat(ss) == IF ss = <<>> THEN <<>> ELSE Head(ss) \o Concat(Tail(ss))

-----------------------------------------------------------------------------
(* Python dicts as insertion-ordered sequences of <<key, value>> *)

DictKeys(d) == {d[k][1] : k \in 1..Len(d)}

DictHas(d, key) == key \in DictKeys(d)

\* d.get(key, default)
DictGet(d, key, default) ==
    IF DictHas(d, key)
    THEN d[CHOOSE k \in 1..Len(d) : d[k][1] = key][2]
    ELSE default

\* d[key] = value
DictSet(d, key, value) ==
    IF DictHas(d, key)
    THEN [k \in 1..Len(d) |-> IF d[k][1] = key THEN <<key, value>> ELSE d[k]]
    ELSE Append(d, <<key, value>>)

-----------------------------------------------------------------------------
(* Configuration *)

TARGET_STREET == <<"H">>

EMAIL_ADDRESS == <<"m","e","@","x">>

\* self.target_street
target_street == Lower(TARGET_STREET)

Boliga == [name |-> <<"B","o","l","i","g","a">>,
           base |-> <<"h","t","t","p","s",":","/","/","w","w","w",".",
                      "b","o","l","i","g","a",".","d","k">>]

Home == [name |-> <<"H","o","m","e">>,
         base |-> <<"h","t","t","p","s",":","/","/","h","o","m","e",".","d","k">>]

\* self.sites: the first two of the six configured sites; the other four
\* differ from these only in their selectors and base URL
sites == <<Boliga, Home>>

PRICE_NOT_AVAILABLE ==
    <<"P","r","i","c","e"," ","n","o","t"," ","a","v","a","i","l","a","b","l","e">>

SIZE_NOT_AVAILABLE ==
    <<"S","i","z","e"," ","n","o","t"," ","a","v","a","i","l","a","b","l","e">>

NO_LINK == <<"#">>

-----------------------------------------------------------------------------
(* Pages.  html_content is modelled by the sequence of property cards the  *)
(* site's card selector finds in it.  An element that select_one() does    *)
(* not find is <<>>, one it finds is <<text>>; a link element is           *)
(* <<[href |-> h]>> with h = <<>> when the element has no href attribute.  *)

None == <<>>

Card(address, price, size, link) ==
    [address |-> address, price |-> price, size |-> size, link |-> link]

CardPool ==
    { Card(<< <<"H","1">> >>, << <<"1">> >>, << <<"5","0">> >>,
           << [href |-> << <<"/","a">> >>] >>),
      Card(<< <<" ","H","1"," ">> >>, << <<"1"," ">> >>, None, None),
      Card(<< <<"H","1">> >>, None, << <<"5","0">> >>,
           << [href |-> << <<"/","a">> >>] >>),
      Card(<< <<"h","2">> >>, << <<"1">> >>, << <<"5","0">> >>,
           << [href |-> << <<"/","a">> >>] >>),
      Card(<< <<"X","1">> >>, << <<"1">> >>, << <<"5","0">> >>, None),
      Card(None, << <<"1">> >>, << <<"5","0">> >>, None),
      Card(<< <<"H","1">> >>, << <<"1">> >>, << <<"5","0">> >>,
           << [href |-> None] >>) }

\* pages of at most n cards
Pages(n) == UNION {[1..m -> CardPool] : m \in 0..n}

\* the day of the run that wrote the snapshot file, and the day after
FirstDay == <<"2","0","2","5","-","0","1","-","0","1">>
SecondDay == <<"2","0","2","5","-","0","1","-","0","2">>

-----------------------------------------------------------------------------
(* The parsers *)

\* One turn of "for card in property_cards": the listings it appends.
\* A card without address element is skipped (continue), a card whose
\* address does not contain the target street appends nothing, and a
\* link element without href raises KeyError inside the try, which is
\* logged and appends nothing.
ParseCard(base, card, date) ==
    IF card.address = None THEN <<>>
    ELSE LET address == Strip(card.address[1]) IN
         IF ~Contains(Lower(target_street), Lower(address)) THEN <<>>
         ELSE IF card.link # None /\ card.link[1].href = None THEN <<>>
         ELSE << [address    |-> address,
                  price      |-> IF card.price # None
                                 THEN Strip(card.price[1])
                                 ELSE PRICE_NOT_AVAILABLE,
                  size       |-> IF card.size # None
                                 THEN Strip(card.size[1])
                                 ELSE SIZE_NOT_AVAILABLE,
                  link       |-> IF card.link # None
                                 THEN base \o card.link[1].href[1]
                                 ELSE NO_LINK,
                  found_date |-> date] >>

RECURSIVE ParseCards(_, _, _)
ParseCards(base, property_cards, date) ==
    IF property_cards = <<>> THEN <<>>
    ELSE ParseCard(base, Head(property_cards), date)
            \o ParseCards(base, Tail(property_cards), date)

parse_boliga(html_content) == ParseCards(Boliga.base, html_content, now)

parse_home(html_content) == ParseCards(Home.base, html_content, now)

\* site['parser'](response.text) for the k-th site
Parser(k, html_content) ==
    IF k = 1 THEN parse_boliga(html_content) ELSE parse_home(html_content)

-----------------------------------------------------------------------------
(* The diff of run() *)

\* IsNew, were the price left out of the comparison
RECURSIVE IsNewByAddress(_, _)
IsNewByAddress(listing, previous) ==
    IF previous = <<>> THEN TRUE
    ELSE IF listing.address = Head(previous).address THEN FALSE
         ELSE IsNewByAddress(listing, Tail(previous))

\* "for prev_listing in previous": is_new after the loop
RECURSIVE IsNew(_, _)
IsNew(listing, previous) ==
    IF previous = <<>> THEN TRUE
    ELSE IF /\ listing.address = Head(previous).address
            /\ listing.price = Head(previous).price
         THEN FALSE
         ELSE IsNew(listing, Tail(previous))

\* "for listing in listings": what is appended to new_listings
RECURSIVE NewOf(_, _, _)
NewOf(name, listings, previous) ==
    IF listings = <<>> THEN <<>>
    ELSE (IF IsNew(Head(listings), previous)
          THEN << [site |-> name, details |-> Head(listings)] >>
          ELSE <<>>)
         \o NewOf(name, Tail(listings), previous)

-----------------------------------------------------------------------------
(* JSON.  The file's text is modelled by the sequence of its JSON tokens   *)
(* (the whitespace of indent=2 lies between tokens and is dropped by the   *)
(* reader); a token is a string of characters, and a string token is the   *)
(* quoted, escaped text that json.dump writes.                             *)

\* the one character outside ASCII in the model's alphabet
OSlash == "U+00F8"

QUOTE == "\""
BACKSLASH == "\\"

LBRACE == <<"{">>
RBRACE == <<"}">>
LBRACK == <<"[">>
RBRACK == <<"]">>
COLON == <<":">>
COMMA == <<",">>

\* EscapeChar, were the backslash written as it is
EscapeCharKeepsBackslash(c) ==
    CASE c = QUOTE     -> <<BACKSLASH, QUOTE>>
      [] c = "\n"      -> <<BACKSLASH, "n">>
      [] c = "\t"      -> <<BACKSLASH, "t">>
      [] c = OSlash    -> <<BACKSLASH, "u", "0", "0", "f", "8">>
      [] OTHER         -> <<c>>

\* json.dump with ensure_ascii=True
EscapeChar(c) ==
    CASE c = QUOTE     -> <<BACKSLASH, QUOTE>>
      [] c = BACKSLASH -> <<BACKSLASH, BACKSLASH>>
      [] c = "\n"      -> <<BACKSLASH, "n">>
      [] c = "\t"      -> <<BACKSLASH, "t">>
      [] c = OSlash    -> <<BACKSLASH, "u", "0", "0", "f", "8">>
      [] OTHER         -> <<c>>

\* the characters json.dump does not write as they are
Escaped == {QUOTE, BACKSLASH, "\n", "\t", OSlash}

Escape(s) ==
    IF \A k \in 1..Len(s) : s[k] \notin Escaped THEN s
    ELSE Concat([k \in 1..Len(s) |-> EscapeChar(s[k])])

EncodeString(s) == <<QUOTE>> \o Escape(s) \o <<QUOTE>>

Bad == [ok |-> FALSE, val |-> <<>>, rest |-> <<>>]

Good(val, rest) == [ok |-> TRUE, val |-> val, rest |-> rest]

\* the text of a string token from its i-th character up to the closing
\* quote, unescaped; not ok for text the JSON reader rejects
RECURSIVE Unescape(_, _, _)
Unescape(tok, i, acc) ==
    IF i >= Len(tok) THEN Good(acc, <<>>)
    ELSE IF tok[i] \in {QUOTE, "\n", "\t"} THEN Bad
    ELSE IF tok[i] # BACKSLASH THEN Unescape(tok, i + 1, Append(acc, tok[i]))
    ELSE IF i + 1 >= Len(tok) THEN Bad
    ELSE IF tok[i + 1] \in {QUOTE, BACKSLASH, "/"}
         THEN Unescape(tok, i + 2, Append(acc, tok[i + 1]))
    ELSE IF tok[i + 1] = "n" THEN Unescape(tok, i + 2, Append(acc, "\n"))
    ELSE IF tok[i + 1] = "t" THEN Unescape(tok, i + 2, Append(acc, "\t"))
    ELSE IF /\ tok[i + 1] = "u"
            /\ i + 5 < Len(tok)
            /\ SubSeq(tok, i + 2, i + 5) = <<"0", "0", "f", "8">>
         THEN Unescape(tok, i + 6, Append(acc, OSlash))
    ELSE Bad

DecodeString(tok) ==
    IF Len(tok) >= 2 /\ tok[1] = QUOTE /\ tok[Len(tok)] = QUOTE
    THEN IF \A i \in 2..(Len(tok) - 1) :
                tok[i] \notin {QUOTE, BACKSLASH, "\n", "\t"}
         THEN Good(SubSeq(tok, 2, Len(tok) - 1), <<>>)
         ELSE Unescape(tok, 2, <<>>)
    ELSE Bad

\* the k-th token, or the empty token past the end
Tok(toks, k) == IF k <= Len(toks) THEN toks[k] ELSE <<>>

Drop(toks, n) == SubSeq(toks, n + 1, Len(toks))

K_address == <<"a","d","d","r","e","s","s">>
K_price == <<"p","r","i","c","e">>
K_size == <<"s","i","z","e">>
K_link == <<"l","i","n","k">>
K_found_date == <<"f","o","u","n","d","_","d","a","t","e">>

ListingKeys == <<K_address, K_price, K_size, K_link, K_found_date>>

\* a listing dict, its keys in insertion order
EncodeListing(l) ==
    <<LBRACE,
      EncodeString(K_address), COLON, EncodeString(l.address), COMMA,
      EncodeString(K_price), COLON, EncodeString(l.price), COMMA,
      EncodeString(K_size), COLON, EncodeString(l.size), COMMA,
      EncodeString(K_link), COLON, EncodeString(l.link), COMMA,
      EncodeString(K_found_date), COLON, EncodeString(l.found_date),
      RBRACE>>

RECURSIVE EncodeListings(_)
EncodeListings(ls) ==
    IF ls = <<>> THEN <<>>
    ELSE EncodeListing(Head(ls))
            \o (IF Tail(ls) = <<>> THEN <<>> ELSE <<COMMA>>)
            \o EncodeListings(Tail(ls))

RECURSIVE EncodeMembers(_)
EncodeMembers(d) ==
    IF d = <<>> THEN <<>>
    ELSE <<EncodeString(Head(d)[1]), COLON, LBRACK>>
            \o EncodeListings(Head(d)[2]) \o <<RBRACK>>
            \o (IF Tail(d) = <<>> THEN <<>> ELSE <<COMMA>>)
            \o EncodeMembers(Tail(d))

\* json.dump(listings, f, indent=2)
EncodeSnapshot(d) == <<LBRACE>> \o EncodeMembers(d) \o <<RBRACE>>

\* one listing object of a file this program wrote
DecodeListing(toks) ==
    IF Len(toks) < 21 THEN Bad
    ELSE
    LET key == [j \in 1..5 |-> DecodeString(toks[4 * j - 2])]
        value == [j \in 1..5 |-> DecodeString(toks[4 * j])]
    IN  IF /\ toks[1] = LBRACE
           /\ toks[21] = RBRACE
           /\ \A j \in 1..5 :
                /\ key[j].ok /\ key[j].val = ListingKeys[j]
                /\ toks[4 * j - 1] = COLON
                /\ value[j].ok
                /\ j < 5 => toks[4 * j + 1] = COMMA
        THEN Good([address    |-> value[1].val,
                   price      |-> value[2].val,
                   size       |-> value[3].val,
                   link       |-> value[4].val,
                   found_date |-> value[5].val], Drop(toks, 21))
        ELSE Bad

\* the listing objects of an array, after its first object was found to start
RECURSIVE DecodeItems(_, _)
DecodeItems(toks, acc) ==
    LET item == DecodeListing(toks) IN
    IF ~item.ok THEN Bad
    ELSE IF Tok(item.rest, 1) = COMMA
         THEN DecodeItems(Drop(item.rest, 1), Append(acc, item.val))
    ELSE IF Tok(item.rest, 1) = RBRACK
         THEN Good(Append(acc, item.val), Drop(item.rest, 1))
    ELSE Bad

DecodeListings(toks) ==
    IF Tok(toks, 1) # LBRACK THEN Bad
    ELSE IF Tok(toks, 2) = RBRACK THEN Good(<<>>, Drop(toks, 2))
    ELSE DecodeItems(Drop(toks, 1), <<>>)

RECURSIVE DecodeMembers(_, _)
DecodeMembers(toks, acc) ==
    LET key == DecodeString(Tok(toks, 1))
        value == DecodeListings(Drop(toks, 2))
    IN  IF ~key.ok \/ Tok(toks, 2) # COLON \/ ~value.ok THEN Bad
        ELSE IF Tok(value.rest, 1) = COMMA
             THEN DecodeMembers(Drop(value.rest, 1),
                                DictSet(acc, key.val, value.val))
        ELSE IF Tok(value.rest, 1) = RBRACE
             THEN Good(DictSet(acc, key.val, value.val), Drop(value.rest, 1))
        ELSE Bad

\* json.load(f): not ok where it raises
DecodeSnapshot(toks) ==
    LET r == IF Tok(toks, 1) # LBRACE THEN Bad
             ELSE IF Tok(toks, 2) = RBRACE THEN Good(<<>>, Drop(toks, 2))
             ELSE DecodeMembers(Drop(toks, 1), <<>>)
    IN  IF r.ok /\ r.rest = <<>> THEN r ELSE Bad

-----------------------------------------------------------------------------
(* The snapshot file *)

NoFile == [exists |-> FALSE, tokens |-> <<>>]

FileWith(tokens) == [exists |-> TRUE, tokens |-> tokens]

\* what load_previous_listings() returns
load_previous_listings ==
    IF file.exists
    THEN LET r == DecodeSnapshot(file.tokens) IN
         IF r.ok THEN r.val ELSE <<>>
    ELSE <<>>

\* save_listings, were the new snapshot merged into the previous one
SaveMerged(listings) ==
    LET merged[k \in 0..Len(listings)] ==
            IF k = 0 THEN previous_listings
            ELSE DictSet(merged[k - 1], listings[k][1], listings[k][2])
    IN  FileWith(EncodeSnapshot(merged[Len(listings)]))

\* the file after save_listings(listings) has returned
save_listings(listings) == FileWith(EncodeSnapshot(listings))

-----------------------------------------------------------------------------
(* One process: monitor = PropertyMonitor(...); monitor.run() *)

\* what one turn of the loop met: whether requests.get() raised, the
\* status of the response, the number of cards in its text, whether the
\* parser raised, and the listings the parser returned
Response(raised, status_code, cards, parser_raised, listings) ==
    [raised |-> raised, status_code |-> status_code, cards |-> cards,
     parser_raised |-> parser_raised, listings |-> listings]

OtherStatuses == {404}

RECURSIVE CardsIn(_)
CardsIn(rs) == IF rs = <<>> THEN 0 ELSE Head(rs).cards + CardsIn(Tail(rs))

\* the cards the pages of the earlier processes had
RECURSIVE CardsBefore(_)
CardsBefore(fs) ==
    IF fs = <<>> THEN 0 ELSE Head(fs).cards + CardsBefore(Tail(fs))

\* the cards the next page may have
CardsLeft == MaxCards - CardsBefore(finished) - CardsIn(responses)

\* the snapshot a run writes whose sites answered with the pages ps
\* (ps[k] = <<>> for a site that failed, <<page>> for one that was parsed)
RECURSIVE SnapshotOf(_, _, _)
SnapshotOf(k, ps, date) ==
    IF k > Len(sites) THEN <<>>
    ELSE (IF ps[k] = <<>> THEN <<>>
          ELSE << <<sites[k].name,
                     ParseCards(sites[k].base, ps[k][1], date)>> >>)
         \o SnapshotOf(k + 1, ps, date)

\* what a site answered to the earlier run: it failed, or its page had no
\* card, or one card
EarlierAnswers == {<<>>, << <<>> >>} \cup {<< <<c>> >> : c \in CardPool}

RECURSIVE OptCards(_)
OptCards(ps) ==
    IF ps = <<>> THEN 0
    ELSE (IF Head(ps) = <<>> THEN 0 ELSE Len(Head(ps)[1])) + OptCards(Tail(ps))

\* the snapshots an earlier run of FirstDay wrote that met one card at most
EarlierSnapshots ==
    { SnapshotOf(1, ps, FirstDay) :
        ps \in {q \in [1..Len(sites) -> EarlierAnswers] : OptCards(q) <= 1} }

\* the file is missing, or cut short by a failed write, or an earlier
\* run's snapshot
InitialFiles ==
    {NoFile, FileWith(<<>>)}
        \cup {FileWith(EncodeSnapshot(d)) : d \in EarlierSnapshots}

Init ==
    /\ file \in InitialFiles
    /\ now \in {FirstDay, SecondDay}
    /\ email_to \in {None, EMAIL_ADDRESS}
    /\ pc = "new"
    /\ previous_listings = <<>>
    /\ site_idx = 0
    /\ all_current_listings = <<>>
    /\ new_listings = <<>>
    /\ responses = <<>>
    /\ parser_calls = {}
    /\ send_calls = 0
    /\ smtp_connections = 0
    /\ outbox = <<>>
    /\ returned = <<>>
    /\ finished = <<>>

\* __init__
Construct ==
    /\ pc = "new"
    /\ previous_listings' = load_previous_listings
    /\ pc' = "run"
    /\ UNCHANGED <<file, now, email_to, site_idx, all_current_listings,
                   new_listings, responses, parser_calls, send_calls,
                   smtp_connections, outbox, returned, finished>>

\* run(), up to the loop
RunBegin ==
    /\ pc = "run"
    /\ all_current_listings' = <<>>
    /\ new_listings' = <<>>
    /\ site_idx' = 1
    /\ pc' = "loop"
    /\ UNCHANGED <<file, now, email_to, previous_listings, responses,
                   parser_calls, send_calls, smtp_connections, outbox,
                   returned, finished>>

InLoop == pc = "loop" /\ site_idx <= Len(sites)

\* SkipSite, were the previous entry of a site that fails kept for the
\* snapshot
SkipSiteCarriesOver(response) ==
    /\ responses' = Append(responses, response)
    /\ site_idx' = site_idx + 1
    /\ all_current_listings' =
          LET name == sites[site_idx].name IN
          IF DictHas(previous_listings, name)
          THEN DictSet(all_current_listings, name,
                       DictGet(previous_listings, name, <<>>))
          ELSE all_current_listings
    /\ UNCHANGED <<file, now, email_to, pc, previous_listings, new_listings,
                   send_calls, smtp_connections, outbox, returned, finished>>

\* a turn of the loop that ends in "except Exception" or in the else branch
SkipSite(response) ==
    /\ responses' = Append(responses, response)
    /\ site_idx' = site_idx + 1
    /\ UNCHANGED <<file, now, email_to, pc, previous_listings,
                   all_current_listings, new_listings, send_calls,
                   smtp_connections, outbox, returned, finished>>

\* FetchRaises, were the try around the loop and not inside it
FetchRaisesLeavesLoop ==
    /\ InLoop
    /\ site_idx' = Len(sites) + 1
    /\ UNCHANGED <<file, now, email_to, pc, previous_listings,
                   all_current_listings, new_listings, responses,
                   parser_calls, send_calls, smtp_connections, outbox,
                   returned, finished>>

\* requests.get raises
FetchRaises ==
    /\ InLoop
    /\ SkipSite(Response(TRUE, 0, 0, FALSE, <<>>))
    /\ UNCHANGED parser_calls

\* FetchOtherStatus, were the status not tested: the body is parsed
FetchOtherStatusParsed ==
    /\ InLoop
    /\ \E status_code \in OtherStatuses :
       \E text \in Pages(CardsLeft) :
         LET name == sites[site_idx].name
             listings == Parser(site_idx, text)
             previous == DictGet(previous_listings, name, <<>>)
         IN  /\ responses' = Append(responses,
                    Response(FALSE, status_code, Len(text), FALSE, listings))
             /\ parser_calls' = parser_calls \cup {name}
             /\ all_current_listings' =
                    DictSet(all_current_listings, name, listings)
             /\ new_listings' = new_listings \o NewOf(name, listings, previous)
    /\ site_idx' = site_idx + 1
    /\ UNCHANGED <<file, now, email_to, pc, previous_listings, send_calls,
                   smtp_connections, outbox, returned, finished>>

\* the response's status is not 200
FetchOtherStatus ==
    /\ InLoop
    /\ \E status_code \in OtherStatuses :
          SkipSite(Response(FALSE, status_code, 0, FALSE, <<>>))
    /\ UNCHANGED parser_calls

\* status 200, and the parser raises on the text
ParserRaises ==
    /\ InLoop
    /\ SkipSite(Response(FALSE, 200, 0, TRUE, <<>>))
    /\ parser_calls' = parser_calls \cup {sites[site_idx].name}

\* status 200: parse, record, diff
FetchOk ==
    /\ InLoop
    /\ \E text \in Pages(CardsLeft) :
         LET name == sites[site_idx].name
             listings == Parser(site_idx, text)
             previous == DictGet(previous_listings, name, <<>>)
         IN  /\ responses' = Append(responses,
                                    Response(FALSE, 200, Len(text), FALSE, listings))
             /\ parser_calls' = parser_calls \cup {name}
             /\ all_current_listings' =
                    DictSet(all_current_listings, name, listings)
             /\ new_listings' = new_listings \o NewOf(name, listings, previous)
    /\ site_idx' = site_idx + 1
    /\ UNCHANGED <<file, now, email_to, pc, previous_listings, send_calls,
                   smtp_connections, outbox, returned, finished>>

AfterLoop == pc = "loop" /\ site_idx > Len(sites)

\* self.save_listings(all_current_listings) returns
SaveOk ==
    /\ AfterLoop
    /\ file' = save_listings(all_current_listings)
    /\ pc' = "notify"
    /\ UNCHANGED <<now, email_to, previous_listings, site_idx,
                   all_current_listings, new_listings, responses,
                   parser_calls, send_calls, smtp_connections, outbox,
                   returned, finished>>

\* self.save_listings(all_current_listings) raises: open() failed and the
\* file is as it was, or the write failed and the file is cut short; the
\* exception leaves run()
SaveRaises ==
    /\ AfterLoop
    /\ file' \in {file, FileWith(<<>>)}
    /\ pc' = "raised"
    /\ UNCHANGED <<now, email_to, previous_listings, site_idx,
                   all_current_listings, new_listings, responses,
                   parser_calls, send_calls, smtp_connections, outbox,
                   returned, finished>>

SmtpCalls == <<"SMTP", "starttls", "login", "send_message", "quit">>

\* NoNewListings, were send_notification called without the test
NotifiesOfNothing ==
    /\ pc = "notify"
    /\ new_listings = <<>>
    /\ send_calls' = send_calls + 1
    /\ IF email_to = None
       THEN UNCHANGED <<smtp_connections, outbox>>
       ELSE /\ smtp_connections' = smtp_connections + 1
            /\ outbox' = Append(outbox, [to |-> email_to, items |-> new_listings])
    /\ pc' = "done"
    /\ returned' = <<new_listings>>
    /\ UNCHANGED <<file, now, email_to, previous_listings, site_idx,
                   all_current_listings, new_listings, responses,
                   parser_calls, finished>>

\* "if new_listings:" is false
NoNewListings ==
    /\ pc = "notify"
    /\ new_listings = <<>>
    /\ pc' = "done"
    /\ returned' = <<new_listings>>
    /\ UNCHANGED <<file, now, email_to, previous_listings, site_idx,
                   all_current_listings, new_listings, responses,
                   parser_calls, send_calls, smtp_connections, outbox,
                   finished>>

\* send_notification returns at "if not self.email_to"
NoRecipient ==
    /\ pc = "notify"
    /\ new_listings # <<>>
    /\ email_to = None
    /\ send_calls' = send_calls + 1
    /\ pc' = "done"
    /\ returned' = <<new_listings>>
    /\ UNCHANGED <<file, now, email_to, previous_listings, site_idx,
                   all_current_listings, new_listings, responses,
                   parser_calls, smtp_connections, outbox, finished>>

\* SendNotification, were the SMTP calls outside the try
SendNotificationUncaught ==
    /\ pc = "notify"
    /\ new_listings # <<>>
    /\ email_to # None
    /\ send_calls' = send_calls + 1
    /\ smtp_connections' = smtp_connections + 1
    /\ \E n \in 1..(Len(SmtpCalls) + 1) :
         /\ outbox' = IF n > 4
                      THEN Append(outbox, [to |-> email_to, items |-> new_listings])
                      ELSE outbox
         /\ IF n > Len(SmtpCalls)
            THEN pc' = "done" /\ returned' = <<new_listings>>
            ELSE pc' = "raised" /\ returned' = returned
    /\ UNCHANGED <<file, now, email_to, previous_listings, site_idx,
                   all_current_listings, new_listings, responses,
                   parser_calls, finished>>

\* send_notification builds the message and makes the SMTP calls up to the
\* first that raises (the n-th; none raises for n = 6); the exception is
\* caught and logged.  The server has the message once send_message
\* returned.
SendNotification ==
    /\ pc = "notify"
    /\ new_listings # <<>>
    /\ email_to # None
    /\ send_calls' = send_calls + 1
    /\ smtp_connections' = smtp_connections + 1
    /\ \E n \in 1..(Len(SmtpCalls) + 1) :
         /\ outbox' = IF n > 4
                      THEN Append(outbox, [to |-> email_to, items |-> new_listings])
                      ELSE outbox
    /\ pc' = "done"
    /\ returned' = <<new_listings>>
    /\ UNCHANGED <<file, now, email_to, previous_listings, site_idx,
                   all_current_listings, new_listings, responses,
                   parser_calls, finished>>

Next ==
    \/ Construct
    \/ RunBegin
    \/ FetchRaises
    \/ FetchOtherStatus
    \/ ParserRaises
    \/ FetchOk
    \/ SaveOk
    \/ SaveRaises
    \/ NoNewListings
    \/ NoRecipient
    \/ SendNotification

Spec == Init /\ [][Next]_vars

-----------------------------------------------------------------------------
(* save_listings(snapshot), load_previous_listings(), save_listings again *)

\* strings with every character json.dump escapes
RoundTripStrings ==
    { <<>>, <<"a">>, <<QUOTE>>, <<BACKSLASH, "n">>, <<"\n", "\t">>,
      <<"H", OSlash, "j">> }

RoundTripListings ==
    { [address |-> t, price |-> t \o <<"1">>, size |-> Lower(t),
       link |-> NO_LINK, found_date |-> FirstDay] : t \in RoundTripStrings }

ListsUpTo(n) == UNION {[1..m -> RoundTripListings] : m \in 0..n}

RECURSIVE Listed(_)
Listed(d) == IF d = <<>> THEN 0 ELSE Len(Head(d)[2]) + Listed(Tail(d))

\* dicts of the site names, in either order, with MaxCards listings at most
RoundTripSnapshots ==
    LET keys == {<<>>, <<Boliga.name>>, <<Home.name>>,
                 <<Boliga.name, Home.name>>, <<Home.name, Boliga.name>>}
    IN  UNION { { d \in { [k \in 1..Len(ks) |-> <<ks[k], ls[k]>>] :
                            ls \in [1..Len(ks) -> ListsUpTo(MaxCards)] } :
                  Listed(d) <= MaxCards } : ks \in keys }

InitRoundTrip ==
    /\ file = NoFile
    /\ now = FirstDay
    /\ email_to = None
    /\ pc = "rt_save"
    /\ previous_listings = <<>>
    /\ site_idx = 0
    /\ all_current_listings \in RoundTripSnapshots
    /\ new_listings = <<>>
    /\ responses = <<>>
    /\ parser_calls = {}
    /\ send_calls = 0
    /\ smtp_connections = 0
    /\ outbox = <<>>
    /\ returned = <<>>
    /\ finished = <<>>

\* save_listings(snapshot)
RoundTripSave ==
    /\ pc = "rt_save"
    /\ file' = save_listings(all_current_listings)
    /\ pc' = "rt_load"
    /\ UNCHANGED <<now, email_to, previous_listings, site_idx,
                   all_current_listings, new_listings, responses,
                   parser_calls, send_calls, smtp_connections, outbox,
                   returned, finished>>

\* load_previous_listings()
RoundTripLoad ==
    /\ pc = "rt_load"
    /\ previous_listings' = load_previous_listings
    /\ pc' = "rt_resave"
    /\ UNCHANGED <<file, now, email_to, site_idx, all_current_listings,
                   new_listings, responses, parser_calls, send_calls,
                   smtp_connections, outbox, returned, finished>>

\* save_listings(what was loaded)
RoundTripResave ==
    /\ pc = "rt_resave"
    /\ file' = save_listings(previous_listings)
    /\ pc' = "rt_done"
    /\ UNCHANGED <<now, email_to, previous_listings, site_idx,
                   all_current_listings, new_listings, responses,
                   parser_calls, send_calls, smtp_connections, outbox,
                   returned, finished>>

NextRoundTrip == RoundTripSave \/ RoundTripLoad \/ RoundTripResave

SpecRoundTrip == InitRoundTrip /\ [][NextRoundTrip]_vars

-----------------------------------------------------------------------------
(* Two processes, one after the other, as cron starts them on two days:    *)
(* the second finds the file the first has left.                           *)

InitRuns ==
    /\ file \in InitialFiles
    /\ now = FirstDay
    /\ email_to \in {None, EMAIL_ADDRESS}
    /\ pc = "new"
    /\ previous_listings = <<>>
    /\ site_idx = 0
    /\ all_current_listings = <<>>
    /\ new_listings = <<>>
    /\ responses = <<>>
    /\ parser_calls = {}
    /\ send_calls = 0
    /\ smtp_connections = 0
    /\ outbox = <<>>
    /\ returned = <<>>
    /\ finished = <<>>

\* the sites whose turn of the loop ended in the else branch or in
\* "except Exception"
Failed ==
    { sites[k].name :
        k \in { j \in 1..Len(responses) :
                  \/ responses[j].raised
                  \/ responses[j].status_code # 200
                  \/ responses[j].parser_raised } }

\* the entries the snapshot the process had loaded has for those sites
Dropped == SelectSeq(previous_listings, LAMBDA entry : entry[1] \in Failed)

\* run() has returned and the script is started again the day after.
\* Nothing of the first process is left but the file; finished keeps which
\* sites failed in it, what it had loaded for them (dropped), and the cards
\* its pages had
NextProcess ==
    /\ pc = "done"
    /\ finished = <<>>
    /\ finished' = Append(finished, [failed |-> Failed,
                                     dropped |-> Dropped,
                                     cards |-> CardsIn(responses)])
    /\ now' = SecondDay
    /\ pc' = "new"
    /\ previous_listings' = <<>>
    /\ site_idx' = 0
    /\ all_current_listings' = <<>>
    /\ new_listings' = <<>>
    /\ responses' = <<>>
    /\ parser_calls' = {}
    /\ send_calls' = 0
    /\ smtp_connections' = 0
    /\ outbox' = <<>>
    /\ returned' = <<>>
    /\ UNCHANGED <<file, email_to>>

NextRuns ==
    \/ Construct
    \/ RunBegin
    \/ FetchRaises
    \/ FetchOtherStatus
    \/ ParserRaises
    \/ FetchOk
    \/ SaveOk
    \/ SaveRaises
    \/ NoNewListings
    \/ NoRecipient
    \/ SendNotification
    \/ NextProcess

SpecRuns == InitRuns /\ [][NextRuns]_vars

-----------------------------------------------------------------------------
(* What the claims speak of *)

Range(seq) == {seq[k] : k \in 1..Len(seq)}

Visited == 1..Len(responses)

\* the k-th site answered 200 and its parser returned
Parsed(k) ==
    /\ ~responses[k].raised
    /\ responses[k].status_code = 200
    /\ ~responses[k].parser_raised

\* the listings the parser returned for the k-th site
ListingsOf(k) == responses[k].listings

\* the listings of the previous snapshot's entry for a site
PreviousOf(name) ==
    UNION { Range(previous_listings[j][2]) :
              j \in {i \in 1..Len(previous_listings) : previous_listings[i][1] = name} }

SameKey(a, b) == a.address = b.address /\ a.price = b.price

\* run() has ended, by return or by an exception
Ended == pc \in {"done", "raised"}

\* new_listings as the loop builds it from what the visited sites answered
ExpectedNew ==
    Concat([k \in Visited |->
              IF Parsed(k)
              THEN NewOf(sites[k].name, ListingsOf(k),
                         DictGet(previous_listings, sites[k].name, <<>>))
              ELSE <<>>])

\* C1: for every site that answered 200, a parsed listing is among the new
\* listings iff no listing of the previous snapshot's entry for that site has
\* the same address and the same price
C1_NewIffNoSameKey ==
    \A k \in Visited :
        Parsed(k) =>
            \A l \in Range(ListingsOf(k)) :
                ([site |-> sites[k].name, details |-> l] \in Range(new_listings))
                    <=> ~\E p \in PreviousOf(sites[k].name) : SameKey(l, p)

\* one previous listing; the site it is recorded under fetches a listing of
\* the same key that differs from it otherwise and is not new, and the other
\* site fetches a listing of the same key, which is new
C1_Witness ==
    /\ pc = "done"
    /\ \E k1, k2 \in Visited :
         /\ k1 # k2 /\ Parsed(k1) /\ Parsed(k2)
         /\ \E p \in PreviousOf(sites[k1].name) :
              /\ \E l \in Range(ListingsOf(k1)) :
                    /\ SameKey(l, p) /\ l.size # p.size /\ l.link # p.link
                    /\ l.found_date # p.found_date
                    /\ [site |-> sites[k1].name, details |-> l] \notin Range(new_listings)
              /\ \E l \in Range(ListingsOf(k2)) :
                    /\ SameKey(l, p)
                    /\ [site |-> sites[k2].name, details |-> l] \in Range(new_listings)

\* C2: a site whose status is not 200 has its parser not called, gets no
\* entry among the current listings and none among the new listings, and no
\* exception leaves run() before every site was visited
C2_Non200YieldsNothing ==
    /\ \A k \in Visited :
         (~responses[k].raised /\ responses[k].status_code # 200) =>
            /\ sites[k].name \notin parser_calls
            /\ ~DictHas(all_current_listings, sites[k].name)
            /\ \A e \in Range(new_listings) : e.site # sites[k].name
    /\ pc = "raised" => Len(responses) = Len(sites)

\* a site with a previous entry answers 404 and run() returns
C2_Witness ==
    /\ pc = "done"
    /\ \E k \in Visited :
         /\ ~responses[k].raised /\ responses[k].status_code = 404
         /\ PreviousOf(sites[k].name) # {}

\* every parsed site's listings equal the previous snapshot's for that site
Identical ==
    \A k \in Visited :
        Parsed(k) => ListingsOf(k) = DictGet(previous_listings, sites[k].name, <<>>)

\* C3: when every site's fetched listings are identical to the previous
\* snapshot's, new_listings is empty, send_notification is not called and
\* run() returns the empty list
C3_IdenticalIsNoOp ==
    Identical =>
        /\ new_listings = <<>>
        /\ send_calls = 0
        /\ smtp_connections = 0
        /\ outbox = <<>>
        /\ pc = "done" => returned = << <<>> >>

\* all sites parsed, one of them with a listing, identical to the previous
\* snapshot, a recipient configured
C3_Witness ==
    /\ pc = "done"
    /\ email_to # None
    /\ Len(responses) = Len(sites)
    /\ \A k \in Visited : Parsed(k)
    /\ \E k \in Visited : ListingsOf(k) # <<>>
    /\ Identical

\* C4: every site is visited whatever the sites before it did, and every
\* parsed site is recorded and diffed by its own page and its own previous
\* entry alone; a failed site has no entry
C4_FailuresIsolated ==
    /\ pc \in {"notify", "done", "raised"} => Len(responses) = Len(sites)
    /\ pc = "loop" => Len(responses) = site_idx - 1
    /\ \A k \in Visited :
         LET name == sites[k].name
             mine == SelectSeq(new_listings, LAMBDA e : e.site = name)
         IN  IF Parsed(k)
             THEN /\ DictHas(all_current_listings, name)
                  /\ DictGet(all_current_listings, name, <<>>) = ListingsOf(k)
                  /\ mine = NewOf(name, ListingsOf(k),
                                  DictGet(previous_listings, name, <<>>))
             ELSE /\ ~DictHas(all_current_listings, name)
                  /\ mine = <<>>

\* the first site fails, the second is parsed and has a new listing, and the
\* run goes on to save and to notify
C4_Witness ==
    /\ pc = "done"
    /\ ~Parsed(1)
    /\ Parsed(2)
    /\ \E e \in Range(new_listings) : e.site = sites[2].name
    /\ outbox # <<>>

\* C5: whatever step fails, run() does not raise and returns its list
C5_NoFailureIsFatal ==
    /\ pc # "raised"
    /\ Ended => returned = <<new_listings>>

\* C6: the file holds this run's snapshot when notification is due, and
\* once send_notification was called it still does and run() has returned
\* the new listings the diff computed, whether or not the server got the
\* message
C6_DeliveryFailureChangesNothing ==
    /\ pc = "notify" => file = save_listings(all_current_listings)
    /\ send_calls > 0 =>
        /\ pc = "done"
        /\ file = save_listings(all_current_listings)
        /\ new_listings = ExpectedNew
        /\ returned = <<ExpectedNew>>

\* delivery was attempted and failed
C6_Witness ==
    /\ smtp_connections = 1
    /\ outbox = <<>>
    /\ returned # <<>>
    /\ returned[1] # <<>>
    /\ file = save_listings(all_current_listings)

NoSameKeyTwice(listings) ==
    \A i, j \in 1..Len(listings) :
        SameKey(listings[i], listings[j]) => i = j

\* C7: no two listings of one site share address and price: in the lists
\* the run builds, in the snapshot it persists, and among the new listings
C7_UniqueByAddressAndPrice ==
    /\ \A k \in 1..Len(all_current_listings) :
         NoSameKeyTwice(all_current_listings[k][2])
    /\ (pc \in {"notify", "done"}) =>
         LET snap == DecodeSnapshot(file.tokens) IN
         snap.ok /\ \A k \in 1..Len(snap.val) : NoSameKeyTwice(snap.val[k][2])
    /\ \A i, j \in 1..Len(new_listings) :
         (/\ new_listings[i].site = new_listings[j].site
          /\ SameKey(new_listings[i].details, new_listings[j].details)) => i = j

\* C8: delivery is attempted at most once and with one message of all new
\* listings, and a run that ended attempted it iff it found a new listing
\* and a recipient is configured
C8_OneMessageIffNewAndRecipient ==
    /\ send_calls <= 1
    /\ smtp_connections <= 1
    /\ Len(outbox) <= 1
    /\ \A m \in Range(outbox) : m.items = new_listings /\ m.to = email_to
    /\ Ended => (smtp_connections = 1 <=> (new_listings # <<>> /\ email_to # None))
    /\ ~Ended => smtp_connections = 0

\* C9: when run() has returned, the file maps exactly the sites parsed in
\* this run to exactly the listings parsed in this run
C9_SnapshotIsThisRunOnly ==
    pc \in {"notify", "done"} =>
        LET snap == DecodeSnapshot(file.tokens) IN
        /\ file.exists
        /\ snap.ok
        /\ DictKeys(snap.val) = {sites[k].name : k \in {i \in Visited : Parsed(i)}}
        /\ \A k \in Visited :
             Parsed(k) => DictGet(snap.val, sites[k].name, <<>>) = ListingsOf(k)

\* the previous snapshot had a listing for a site that failed in this run,
\* and one for a site that was parsed and no longer lists it
C9_Witness ==
    /\ pc = "done"
    /\ \E k \in Visited :
         /\ PreviousOf(sites[k].name) # {}
         /\ \/ ~Parsed(k)
            \/ Parsed(k) /\ ListingsOf(k) = <<>>

\* C10: what load_previous_listings() returns after save_listings(snapshot)
\* equals snapshot, and saving it again writes the file that was there
C10_RoundTrip ==
    /\ pc \in {"rt_resave", "rt_done"} => previous_listings = all_current_listings
    /\ pc = "rt_done" => file = FileWith(EncodeSnapshot(all_current_listings))
    /\ pc \in {"rt_load", "rt_resave", "rt_done"} =>
          DecodeSnapshot(file.tokens).ok

\* a snapshot of both sites with a backslash and a quote in its strings was
\* saved, loaded and saved again
C10_Witness ==
    /\ pc = "rt_done"
    /\ Len(all_current_listings) = 2
    /\ \E k \in 1..2 : \E l \in Range(all_current_listings[k][2]) :
          BACKSLASH \in Range(l.address)
    /\ \E k \in 1..2 : \E l \in Range(all_current_listings[k][2]) :
          QUOTE \in Range(l.address)

\* C11: a site that failed in a run has no entry in the snapshot that run
\* wrote, nor in what the next process loads from it; and in that next
\* process every listing parsed from the site's page is appended to
\* new_listings, whatever the snapshot before the first run had, and the
\* run that returns has called send_notification once, with all of
\* new_listings
C11_FailedSiteIsNewAgain ==
    /\ pc \in {"notify", "done"} =>
          \A name \in Failed : ~DictHas(load_previous_listings, name)
    /\ finished # <<>> =>
          /\ pc # "new" =>
                \A name \in finished[1].failed :
                    ~DictHas(previous_listings, name)
          /\ \A k \in Visited :
                Parsed(k) /\ sites[k].name \in finished[1].failed =>
                  /\ \A l \in Range(ListingsOf(k)) :
                        [site |-> sites[k].name, details |-> l]
                            \in Range(new_listings)
                  /\ pc = "done" /\ ListingsOf(k) # <<>> =>
                        /\ send_calls = 1
                        /\ returned = <<new_listings>>
                        /\ email_to # None => smtp_connections = 1
                        /\ \A m \in Range(outbox) : m.items = new_listings

\* the first process had loaded a listing of a site that then failed; the
\* second process has parsed a listing of the same address and price from
\* that site's page, and the server has accepted the message that lists it
C11_Witness ==
    /\ finished # <<>>
    /\ pc = "done"
    /\ \E k \in Visited :
         /\ Parsed(k)
         /\ sites[k].name \in finished[1].failed
         /\ \E l \in Range(ListingsOf(k)) :
              /\ \E entry \in Range(finished[1].dropped) :
                   /\ entry[1] = sites[k].name
                   /\ \E old \in Range(entry[2]) :
                        SameKey(l, old) /\ old.found_date # l.found_date
              /\ \E m \in Range(outbox) :
                   [site |-> sites[k].name, details |-> l] \in Range(m.items)

====
